---------------------------- MODULE Spec2Model ----------------------------
(***************************************************************************)
(* Model of bioblend_contrib.galaxy.GalaxyContribInstance                  *)
(* (src/bioblend_contrib/galaxy/__init__.py): URL normalisation at         *)
(* construction, the lazily resolved and cached API key, default_params    *)
(* and the retry properties forwarded to bioblend's process-wide Client    *)
(* configuration.                                                          *)
(*                                                                         *)
(* Python byte strings that the code transforms (URLs, credentials,        *)
(* header values) are sequences of one-character strings.  API keys, which *)
(* the code only stores, tests and returns, are TLA+ strings.  An optional *)
(* value is a sequence of length at most one: None is << >> and a present  *)
(* value v is <<v>>.                                                       *)
(***************************************************************************)
EXTENDS Integers, Sequences, FiniteSets, TLC

-----------------------------------------------------------------------------
(* Bounds of the model *)

\* Total number of authentication requests the model lets be issued.
MaxRequests == 3

\* max_get_attempts / get_retry_delay values are drawn from 1..MaxRetryValue.
MaxRetryValue == 2

\* Instance objects the process may construct, and the threads using them.
Instances == {"gi1", "gi2"}
Threads == {"t1", "t2"}
MainThread == "t1"
MainInstance == "gi1"

-----------------------------------------------------------------------------
(* Python values *)

None == << >>
Some(v) == <<v>>

\* Python truthiness of an optional string held as a TLA+ string.
Truthy(o) == o # None /\ o[1] # ""

\* r.status_code value the key accessor accepts.
HTTP_OK == 200

\* Byte value of a character: ASCII digits, letters and the punctuation
\* that occurs in the credentials of the model.
Digits == <<"0", "1", "2", "3", "4", "5", "6", "7", "8", "9">>
UpperCase ==
  <<"A", "B", "C", "D", "E", "F", "G", "H", "I", "J", "K", "L", "M", "N",
    "O", "P", "Q", "R", "S", "T", "U", "V", "W", "X", "Y", "Z">>
LowerCase ==
  <<"a", "b", "c", "d", "e", "f", "g", "h", "i", "j", "k", "l", "m", "n",
    "o", "p", "q", "r", "s", "t", "u", "v", "w", "x", "y", "z">>

IndexIn(tbl, c) == CHOOSE k \in 1..Len(tbl) : tbl[k] = c
IsIn(tbl, c) == \E k \in 1..Len(tbl) : tbl[k] = c

Ord(c) ==
  CASE IsIn(Digits, c)    -> 47 + IndexIn(Digits, c)
    [] IsIn(UpperCase, c) -> 64 + IndexIn(UpperCase, c)
    [] IsIn(LowerCase, c) -> 96 + IndexIn(LowerCase, c)
    [] c = ":"            -> 58
    [] c = "@"            -> 64
    [] c = "."            -> 46

\* Index of the first occurrence of c in s, 0 when absent (str.find + 1).
Find(s, c) ==
  IF \E k \in 1..Len(s) : s[k] = c
  THEN CHOOSE k \in 1..Len(s) : s[k] = c /\ \A j \in 1..(k - 1) : s[j] # c
  ELSE 0

\* s[:n] and s[n:] of Python, n counted from 0.
Take(s, n) == SubSeq(s, 1, IF n < Len(s) THEN n ELSE Len(s))
Drop(s, n) == SubSeq(s, n + 1, Len(s))

Elems(s) == {s[k] : k \in 1..Len(s)}

\* "%s" % v for an optional byte string: str(None) is the text None.
StrNone == <<"N", "o", "n", "e">>
FormatS(o) == IF o = None THEN StrNone ELSE o[1]

-----------------------------------------------------------------------------
(* base64.b64encode *)

B64Alphabet == UpperCase \o LowerCase \o Digits \o <<"+", "/">>

B64Char(n) == B64Alphabet[(n % 64) + 1]

\* One group of up to three bytes becomes four characters, padded with "=".
B64Group(g) ==
  LET b1 == Ord(g[1])
      b2 == IF Len(g) >= 2 THEN Ord(g[2]) ELSE 0
      b3 == IF Len(g) >= 3 THEN Ord(g[3]) ELSE 0
      n  == b1 * 65536 + b2 * 256 + b3
  IN  << B64Char(n \div 262144),
         B64Char(n \div 4096),
         IF Len(g) >= 2 THEN B64Char(n \div 64) ELSE "=",
         IF Len(g) >= 3 THEN B64Char(n) ELSE "=" >>

RECURSIVE b64encode(_)
b64encode(s) ==
  IF Len(s) = 0 THEN << >>
  ELSE B64Group(Take(s, 3)) \o b64encode(Drop(s, 3))

-----------------------------------------------------------------------------
(* urlparse.urlparse and urlparse.urljoin of Python 2.7, for URLs without    *)
(* query, fragment, parameters or dot segments, which is what the            *)
(* constructor is given in this model.                                       *)

S_http  == <<"h", "t", "t", "p">>
S_https == <<"h", "t", "t", "p", "s">>
S_ftp   == <<"f", "t", "p">>
S_file  == <<"f", "i", "l", "e">>
S_api   == <<"a", "p", "i">>
S_empty == << >>

SchemeChars ==
  Elems(LowerCase) \cup Elems(UpperCase) \cup Elems(Digits) \cup {"+", "-", "."}

\* Schemes of urlparse.uses_relative / uses_netloc that matter here.
UsesRelative == {S_ftp, S_http, S_file, S_https, S_empty}
UsesNetloc   == {S_ftp, S_http, S_file, S_https, S_empty}

LowerChar(c) == IF IsIn(UpperCase, c) THEN LowerCase[IndexIn(UpperCase, c)] ELSE c
Lower(s) == [k \in 1..Len(s) |-> LowerChar(s[k])]

\* _splitnetloc(url, 2): the authority runs up to the next "/".
SplitNetloc(url) ==
  LET rest  == Drop(url, 2)
      slash == Find(rest, "/")
  IN  IF slash = 0
      THEN [netloc |-> rest, path |-> S_empty]
      ELSE [netloc |-> Take(rest, slash - 1), path |-> Drop(rest, slash - 1)]

\* urlsplit once the scheme is known: an authority is read only after "//".
SplitAfterScheme(scheme, url) ==
  IF Take(url, 2) = <<"/", "/">>
  THEN [scheme |-> scheme,
        netloc |-> SplitNetloc(url).netloc,
        path   |-> SplitNetloc(url).path]
  ELSE [scheme |-> scheme, netloc |-> S_empty, path |-> url]

\* urlparse.urlparse(url, default): the prefix before the first ":" is a
\* scheme when it is non-empty, made of scheme characters, and what follows
\* is not a port number.
urlparse(url, default) ==
  LET colon == Find(url, ":")
      head  == Take(url, colon - 1)
      rest  == Drop(url, colon)
  IN  IF colon > 1 /\ head = S_http
      THEN SplitAfterScheme(S_http, rest)
      ELSE IF /\ colon > 1
              /\ Elems(head) \subseteq SchemeChars
              /\ (rest = S_empty \/ ~(Elems(rest) \subseteq Elems(Digits)))
      THEN SplitAfterScheme(Lower(head), rest)
      ELSE SplitAfterScheme(default, url)

\* str.split("/") and "/".join.
RECURSIVE SplitSlash(_)
SplitSlash(s) ==
  LET slash == Find(s, "/")
  IN  IF slash = 0 THEN <<s>>
      ELSE <<Take(s, slash - 1)>> \o SplitSlash(Drop(s, slash))

RECURSIVE JoinSlash(_)
JoinSlash(segs) ==
  IF Len(segs) = 0 THEN S_empty
  ELSE IF Len(segs) = 1 THEN segs[1]
  ELSE segs[1] \o <<"/">> \o JoinSlash(Tail(segs))

\* urlparse.urlunparse for a URL with no parameters, query or fragment.
urlunparse(scheme, netloc, path) ==
  LET p1 == IF netloc # S_empty
               \/ (scheme # S_empty /\ scheme \in UsesNetloc
                   /\ Take(path, 2) # <<"/", "/">>)
            THEN <<"/", "/">> \o netloc
                 \o (IF path # S_empty /\ Take(path, 1) # <<"/">>
                     THEN <<"/">> \o path ELSE path)
            ELSE path
  IN  IF scheme # S_empty THEN scheme \o <<":">> \o p1 ELSE p1

\* urlparse.urljoin(base, url) for a relative reference that is a bare path:
\* the last segment of the base path is replaced by the reference.
urljoin(base, url) ==
  LET b == urlparse(base, S_empty)
      u == urlparse(url, b.scheme)
      segs == SubSeq(SplitSlash(b.path), 1, Len(SplitSlash(b.path)) - 1)
              \o SplitSlash(u.path)
  IN  IF base = S_empty THEN url
      ELSE IF url = S_empty THEN base
      ELSE IF u.scheme # b.scheme \/ ~(u.scheme \in UsesRelative) THEN url
      ELSE IF u.scheme \in UsesNetloc /\ u.netloc # S_empty
      THEN urlunparse(u.scheme, u.netloc, u.path)
      ELSE IF Take(u.path, 1) = <<"/">>
      THEN urlunparse(u.scheme, b.netloc, u.path)
      ELSE urlunparse(u.scheme, b.netloc, JoinSlash(segs))

-----------------------------------------------------------------------------
(* Inputs *)

S_scheme == <<"h", "t", "t", "p", ":", "/", "/">>
S_baseauth ==
  <<"/", "a", "u", "t", "h", "e", "n", "t", "i", "c", "a", "t", "e", "/",
    "b", "a", "s", "e", "a", "u", "t", "h">>
S_json ==
  <<"a", "p", "p", "l", "i", "c", "a", "t", "i", "o", "n", "/", "j", "s",
    "o", "n">>

\* Constructor urls: gx, gx/galaxy, gx/galaxy/, gx:80, https://gx and
\* https://gx/galaxy.
Urls ==
  { <<"g", "x">>,
    <<"g", "x", "/", "g", "a", "l", "a", "x", "y">>,
    <<"g", "x", "/", "g", "a", "l", "a", "x", "y", "/">>,
    <<"g", "x", ":", "8", "0">>,
    <<"h", "t", "t", "p", "s", ":", "/", "/", "g", "x">>,
    <<"h", "t", "t", "p", "s", ":", "/", "/", "g", "x", "/", "g", "a", "l",
      "a", "x", "y">> }

\* key, email and password arguments: absent, or a string.
KeyArgs      == {None, Some(""), Some("abc")}
EmailArgs    == {None, Some(<<"a", "@", "b">>)}
PasswordArgs == {None, Some(<<"p", "w">>)}

\* Responses of the server to GET .../authenticate/baseauth: a status and,
\* with status 200, a body whose api_key field is a string.
Statuses == {200, 403, 500}
ApiKeys  == {"", "xyz"}

RetryValues == 1..MaxRetryValue

-----------------------------------------------------------------------------
(* State *)

VARIABLES
  constructed,      \* the Instance objects whose __init__ has run
  arg_url,          \* url argument each Instance was constructed with
  arg_key,          \* key argument each Instance was constructed with
  base_url,         \* self.base_url
  url,              \* self.url
  key_,             \* self.__key
  email,            \* self.email (unset reads as None; never read then)
  password,         \* self.password
  max_get_retries,  \* Client._max_get_retries, one per process
  get_retry_delay,  \* Client._get_retry_delay, one per process
  set_attempts,     \* the last max_get_attempts assignment, if any: its
                    \* value, the Instance used, the Instances alive then
  set_delay,        \* the same for get_retry_delay
  pc,               \* where each thread is inside the key accessor
  call,             \* the operation each thread called last, and on what
  ret,              \* what that operation returned or raised
  resp,             \* the response r that the thread's key read received
  sent,             \* GETs issued by the thread's current key read
  wire,             \* every request handed to requests.get so far
  nreq,             \* per Instance, authentication requests issued
  nok               \* per Instance, responses that came with status 200

instvars == <<constructed, arg_url, arg_key, base_url, url, key_, email, password>>
clientvars == <<max_get_retries, get_retry_delay, set_attempts, set_delay>>
netvars == <<wire, nreq, nok>>
threadvars == <<pc, call, ret, resp, sent>>
vars == <<instvars, clientvars, netvars, threadvars>>

\* self.json_headers and self.verify never change after __init__.
json_headers == ("Content-Type" :> S_json)
verify == FALSE

NoDict == << >>
RetNone == [kind |-> "none", key |-> None, params |-> NoDict, num |-> 0]
RetRaise == [kind |-> "raise", key |-> None, params |-> NoDict, num |-> 0]
RetKey(k) == [kind |-> "key", key |-> k, params |-> NoDict, num |-> 0]
RetParams(d) == [kind |-> "params", key |-> None, params |-> d, num |-> 0]
RetInt(n) == [kind |-> "int", key |-> None, params |-> NoDict, num |-> n]

\* A response: its status_code and the api_key of its JSON body.
NoResp == [status |-> 0, api_key |-> None]

Init ==
  /\ constructed = {}
  /\ arg_url = [i \in Instances |-> S_empty]
  /\ arg_key = [i \in Instances |-> None]
  /\ base_url = [i \in Instances |-> S_empty]
  /\ url = [i \in Instances |-> S_empty]
  /\ key_ = [i \in Instances |-> None]
  /\ email = [i \in Instances |-> None]
  /\ password = [i \in Instances |-> None]
  /\ max_get_retries \in RetryValues
  /\ get_retry_delay \in RetryValues
  /\ set_attempts = None
  /\ set_delay = None
  /\ pc = [t \in Threads |-> "idle"]
  /\ call = [t \in Threads |-> [op |-> "none", inst |-> "gi1"]]
  /\ ret = [t \in Threads |-> RetNone]
  /\ resp = [t \in Threads |-> NoResp]
  /\ sent = [t \in Threads |-> 0]
  /\ wire = {}
  /\ nreq = [i \in Instances |-> 0]
  /\ nok = [i \in Instances |-> 0]

-----------------------------------------------------------------------------
(* GalaxyContribInstance.__init__ *)

\* Lines 55-56: a url without a scheme gets http:// in front.
NormalizeUrl(u) ==
  IF urlparse(u, S_empty).scheme = S_empty THEN S_scheme \o u ELSE u

\* Line 59.
ApiUrl(u) == urljoin(NormalizeUrl(u), S_api)

\* A constructor that forgets the key it is given.
StoredKeyDropped(k) == None

\* Lines 62-65: what __init__ puts in self.__key.
StoredKey(k) == IF Truthy(k) THEN k ELSE None

Construct(t, i, u, k, e, p) ==
  /\ pc[t] = "idle"
  /\ i \notin constructed
  /\ constructed' = constructed \cup {i}
  /\ arg_url' = [arg_url EXCEPT ![i] = u]
  /\ arg_key' = [arg_key EXCEPT ![i] = k]
  /\ base_url' = [base_url EXCEPT ![i] = NormalizeUrl(u)]
  /\ url' = [url EXCEPT ![i] = ApiUrl(u)]
  /\ key_' = [key_ EXCEPT ![i] = StoredKey(k)]
  /\ IF Truthy(k)
     THEN UNCHANGED <<email, password>>
     ELSE /\ email' = [email EXCEPT ![i] = e]
          /\ password' = [password EXCEPT ![i] = p]
  /\ call' = [call EXCEPT ![t] = [op |-> "__init__", inst |-> i]]
  /\ ret' = [ret EXCEPT ![t] = RetNone]
  /\ sent' = [sent EXCEPT ![t] = 0]
  /\ resp' = [resp EXCEPT ![t] = NoResp]
  /\ UNCHANGED <<clientvars, netvars, pc>>

-----------------------------------------------------------------------------
(* GalaxyContribInstance.key and default_params *)

KeyOps == {"key", "default_params"}

\* A default_params that files the key under another name.
ResultMisnamed(op, k) ==
  IF op = "default_params" THEN RetParams("api_key" :> k[1]) ELSE RetKey(k)

\* Line 108 wraps the key in a dict; line 104 returns it as it is.
Result(op, k) ==
  IF op = "default_params" THEN RetParams("key" :> k[1]) ELSE RetKey(k)

\* The test written as "if not self.__key": an empty api_key reads as
\* no key.
CacheEmptyFalsy(k) == ~Truthy(k)

\* Line 92: the test that decides between the cache and the exchange.
CacheEmpty(k) == k = None

\* Requests issued so far, over all Instances.
RECURSIVE SumOver(_, _)
SumOver(f, S) ==
  IF S = {} THEN 0
  ELSE LET x == CHOOSE y \in S : TRUE IN f[x] + SumOver(f, S \ {x})
Issued == SumOver(nreq, Instances)

\* Requests that threads have committed to but not issued yet.
Committed == Cardinality({t \in Threads : pc[t] = "send"})

\* The accessor under a lock held from the test to the assignment.
KeyCheckLocked(t, i, op) ==
  /\ pc[t] = "idle"
  /\ \A u \in Threads \ {t} : pc[u] = "idle"
  /\ i \in constructed
  /\ call' = [call EXCEPT ![t] = [op |-> op, inst |-> i]]
  /\ sent' = [sent EXCEPT ![t] = 0]
  /\ resp' = [resp EXCEPT ![t] = NoResp]
  /\ IF key_[i] = None
     THEN /\ Committed + Issued < MaxRequests
          /\ pc' = [pc EXCEPT ![t] = "send"]
          /\ ret' = [ret EXCEPT ![t] = RetNone]
     ELSE /\ ret' = [ret EXCEPT ![t] = Result(op, key_[i])]
          /\ UNCHANGED pc
  /\ UNCHANGED <<instvars, clientvars, netvars>>

\* Lines 92 and 104: read the cache; return it when it holds a value.
KeyCheck(t, i, op) ==
  /\ pc[t] = "idle"
  /\ i \in constructed
  /\ call' = [call EXCEPT ![t] = [op |-> op, inst |-> i]]
  /\ sent' = [sent EXCEPT ![t] = 0]
  /\ resp' = [resp EXCEPT ![t] = NoResp]
  /\ IF CacheEmpty(key_[i])
     THEN /\ Committed + Issued < MaxRequests
          /\ pc' = [pc EXCEPT ![t] = "send"]
          /\ ret' = [ret EXCEPT ![t] = RetNone]
     ELSE /\ ret' = [ret EXCEPT ![t] = Result(op, key_[i])]
          /\ UNCHANGED pc
  /\ UNCHANGED <<instvars, clientvars, netvars>>

\* Lines 93-96: the Authorization header value.
Authorization(e, p) == b64encode(FormatS(e) \o <<":">> \o FormatS(p))

\* Lines 93-100: the request handed to requests.get.
AuthRequest(i) ==
  [ inst    |-> i,
    method  |-> "GET",
    url     |-> url[i] \o S_baseauth,
    headers |-> ("Authorization" :> Authorization(email[i], password[i]))
                  @@ json_headers,
    verify  |-> verify ]

KeySend(t) ==
  /\ pc[t] = "send"
  /\ wire' = wire \cup {AuthRequest(call[t].inst)}
  /\ nreq' = [nreq EXCEPT ![call[t].inst] = @ + 1]
  /\ sent' = [sent EXCEPT ![t] = @ + 1]
  /\ pc' = [pc EXCEPT ![t] = "wait"]
  /\ UNCHANGED <<instvars, clientvars, nok, call, ret, resp>>

\* A test that lets every status below 500 through.
AcceptedBelow500(status) == status < 500

\* Line 101: the only status the accessor takes as success.
Accepted(status) == status = HTTP_OK

\* A read that goes back for another GET while attempts remain.
AfterResponseRetrying(t, status) ==
  IF status # HTTP_OK /\ sent[t] < max_get_retries THEN "send" ELSE "idle"

\* Lines 101-104: the read ends with the response, by raise or by return.
AfterResponse(t, status) == "idle"

\* The response the server sends: a body is read only from a 200.
Response(status, api_key) ==
  [status |-> status,
   api_key |-> IF status = HTTP_OK THEN Some(api_key) ELSE None]

\* Lines 100-104 (and 108): the response arrives.
KeyRecv(t, status, api_key) ==
  /\ pc[t] = "wait"
  /\ pc' = [pc EXCEPT ![t] = AfterResponse(t, status)]
  /\ resp' = [resp EXCEPT ![t] = Response(status, api_key)]
  /\ IF ~Accepted(status)
     THEN /\ ret' = [ret EXCEPT ![t] = RetRaise]
          /\ UNCHANGED key_
     ELSE /\ key_' = [key_ EXCEPT ![call[t].inst] = Some(api_key)]
          /\ ret' = [ret EXCEPT ![t] = Result(call[t].op, Some(api_key))]
  /\ nok' = [nok EXCEPT ![call[t].inst] =
                IF status = HTTP_OK THEN @ + 1 ELSE @]
  /\ UNCHANGED <<constructed, arg_url, arg_key, base_url, url, email, password,
                 clientvars, wire, nreq, call, sent>>

-----------------------------------------------------------------------------
(* max_get_attempts and get_retry_delay: forwards to bioblend's Client *)

\* Line 112.
GetMaxGetAttempts(t, i) ==
  /\ pc[t] = "idle"
  /\ i \in constructed
  /\ call' = [call EXCEPT ![t] = [op |-> "max_get_attempts", inst |-> i]]
  /\ ret' = [ret EXCEPT ![t] = RetInt(max_get_retries)]
  /\ sent' = [sent EXCEPT ![t] = 0]
  /\ resp' = [resp EXCEPT ![t] = NoResp]
  /\ UNCHANGED <<instvars, clientvars, netvars, pc>>

\* An assignment of max_get_attempts that lands in the delay setting.
SetMaxGetAttemptsAsDelay(t, i, v) ==
  /\ pc[t] = "idle"
  /\ i \in constructed
  /\ get_retry_delay' = v
  /\ set_attempts' = Some([val |-> v, via |-> i, known |-> constructed])
  /\ call' = [call EXCEPT ![t] = [op |-> "max_get_attempts=", inst |-> i]]
  /\ ret' = [ret EXCEPT ![t] = RetNone]
  /\ sent' = [sent EXCEPT ![t] = 0]
  /\ resp' = [resp EXCEPT ![t] = NoResp]
  /\ UNCHANGED <<instvars, max_get_retries, set_delay, netvars, pc>>

\* Line 116.
SetMaxGetAttempts(t, i, v) ==
  /\ pc[t] = "idle"
  /\ i \in constructed
  /\ max_get_retries' = v
  /\ set_attempts' = Some([val |-> v, via |-> i, known |-> constructed])
  /\ call' = [call EXCEPT ![t] = [op |-> "max_get_attempts=", inst |-> i]]
  /\ ret' = [ret EXCEPT ![t] = RetNone]
  /\ sent' = [sent EXCEPT ![t] = 0]
  /\ resp' = [resp EXCEPT ![t] = NoResp]
  /\ UNCHANGED <<instvars, get_retry_delay, set_delay, netvars, pc>>

\* Line 120.
GetGetRetryDelay(t, i) ==
  /\ pc[t] = "idle"
  /\ i \in constructed
  /\ call' = [call EXCEPT ![t] = [op |-> "get_retry_delay", inst |-> i]]
  /\ ret' = [ret EXCEPT ![t] = RetInt(get_retry_delay)]
  /\ sent' = [sent EXCEPT ![t] = 0]
  /\ resp' = [resp EXCEPT ![t] = NoResp]
  /\ UNCHANGED <<instvars, clientvars, netvars, pc>>

\* Line 124.
SetGetRetryDelay(t, i, v) ==
  /\ pc[t] = "idle"
  /\ i \in constructed
  /\ get_retry_delay' = v
  /\ set_delay' = Some([val |-> v, via |-> i, known |-> constructed])
  /\ call' = [call EXCEPT ![t] = [op |-> "get_retry_delay=", inst |-> i]]
  /\ ret' = [ret EXCEPT ![t] = RetNone]
  /\ sent' = [sent EXCEPT ![t] = 0]
  /\ resp' = [resp EXCEPT ![t] = NoResp]
  /\ UNCHANGED <<instvars, max_get_retries, set_attempts, netvars, pc>>

-----------------------------------------------------------------------------
(* Specifications *)

\* A step of the constructor or of the key accessor, by thread t on an
\* Instance of I.
KeyStep(t, I) ==
  \/ \E i \in I, u \in Urls, k \in KeyArgs, e \in EmailArgs,
        p \in PasswordArgs : Construct(t, i, u, k, e, p)
  \/ \E i \in I, op \in KeyOps : KeyCheck(t, i, op)
  \/ KeySend(t)
  \/ \E status \in Statuses, api_key \in ApiKeys : KeyRecv(t, status, api_key)

\* A read or an assignment of a retry property, by thread t on an Instance
\* of I.
RetryStep(t, I) ==
  \/ \E i \in I : GetMaxGetAttempts(t, i)
  \/ \E i \in I, v \in RetryValues : SetMaxGetAttempts(t, i, v)
  \/ \E i \in I : GetGetRetryDelay(t, i)
  \/ \E i \in I, v \in RetryValues : SetGetRetryDelay(t, i, v)

\* One Instance used by one thread, as the component assumes.
Next == KeyStep(MainThread, {MainInstance}) \/ RetryStep(MainThread, {MainInstance})
Spec == Init /\ [][Next]_vars

\* Several Instances in one process, constructed at any time, sharing the
\* Client configuration.
NextShared ==
  \/ \E i \in Instances, u \in Urls, k \in KeyArgs :
        Construct(MainThread, i, u, k, None, None)
  \/ RetryStep(MainThread, Instances)
SpecShared == Init /\ [][NextShared]_vars

\* One Instance whose key is read from several threads at once.
NextMT == \E t \in Threads : KeyStep(t, {MainInstance})
SpecMT == Init /\ [][NextMT]_vars

-----------------------------------------------------------------------------
(* Properties *)

\* How an Instance was constructed: with a key the constructor kept, or
\* without one (the key is then resolved on first read).
Direct(i) == i \in constructed /\ Truthy(arg_key[i])
Lazy(i) == i \in constructed /\ ~Truthy(arg_key[i])

\* Thread t has finished a read of key or default_params.
ReadDone(t) == pc[t] = "idle" /\ call[t].op \in KeyOps

\* Thread t has finished a read that went through the exchange.
Exchanged(t) == ReadDone(t) /\ resp[t] # NoResp

\* Reads and responses seen so far agree with the cache (part of C1).
C1_State ==
  /\ \A i \in Instances :
       Lazy(i) => /\ nok[i] <= 1
                  /\ (nok[i] = 1 <=> key_[i] # None)
  /\ \A t \in Threads :
       /\ (Exchanged(t) /\ resp[t].status = HTTP_OK)
            => /\ key_[call[t].inst] = resp[t].api_key
               /\ ret[t] = Result(call[t].op, resp[t].api_key)
       /\ (ReadDone(t) /\ Lazy(call[t].inst) /\ ret[t].kind # "raise")
            => ret[t] = Result(call[t].op, key_[call[t].inst])

\* Once a lazily resolved Instance holds a key, a step changes neither the
\* key nor what was sent for it (part of C1).
C1_Step ==
  \A i \in Instances :
    (Lazy(i) /\ key_[i] # None)
      => /\ key_'[i] = key_[i]
         /\ nreq'[i] = nreq[i]
         /\ nok'[i] = nok[i]
         /\ wire' = wire

\* C1: for an Instance constructed without a key, with one thread: at most one
\* exchange succeeds; the read that receives the 200 stores the returned
\* api_key and returns it; from then on the cached value never changes, no
\* further request is issued for the Instance, and every read returns the
\* cached value.
C1_AuthenticatesOnce == []C1_State /\ [][C1_Step]_vars

\* C1 witness: after a successful exchange, a later read of the same Instance
\* returned the cached api_key without issuing a request.
C1_Witness ==
  /\ Lazy(MainInstance)
  /\ nok[MainInstance] = 1
  /\ ReadDone(MainThread)
  /\ call[MainThread].inst = MainInstance
  /\ resp[MainThread] = NoResp
  /\ sent[MainThread] = 0
  /\ ret[MainThread].kind = "key"
  /\ ret[MainThread].key = key_[MainInstance]

\* A step that issues a request is the GET of a key read on an empty cache;
\* a step that constructs an Instance issues none (part of C2).
C2_IssuedOnlyByEmptyRead ==
  \A i \in Instances :
    /\ (nreq'[i] # nreq[i] \/ \E r \in wire' \ wire : r.inst = i)
         => /\ key_[i] = None
            /\ i \in constructed
            /\ \E t \in Threads : /\ pc[t] = "send"
                                  /\ pc'[t] = "wait"
                                  /\ call[t].op \in KeyOps
                                  /\ call[t].inst = i
    /\ (i \notin constructed /\ i \in constructed')
         => /\ nreq' = nreq
            /\ wire' = wire
            /\ nreq'[i] = 0

\* Instances given any key argument, the empty string included, hold it,
\* return it and have issued nothing.
C2_KeyArgState ==
  \A i \in constructed :
    arg_key[i] # None
      => /\ nreq[i] = 0
         /\ key_[i] = arg_key[i]
         /\ \A t \in Threads :
              (ReadDone(t) /\ call[t].inst = i)
                => ret[t] = Result(call[t].op, arg_key[i])

\* C2 as stated: a request is issued only by a key read on an empty cache,
\* never by construction, and an Instance constructed with a key argument
\* (any string) returns that key on every read and never issues a request.
C2_AnyKeyArgNeverAuthenticates ==
  []C2_KeyArgState /\ [][C2_IssuedOnlyByEmptyRead]_vars

\* Instances given a non-empty key hold it, return it and have issued
\* nothing.
C2_DirectState ==
  \A i \in Instances :
    Direct(i)
      => /\ nreq[i] = 0
         /\ key_[i] = arg_key[i]
         /\ \A t \in Threads :
              (ReadDone(t) /\ call[t].inst = i)
                => ret[t] = Result(call[t].op, arg_key[i])

\* C2 amended: the same, for an Instance constructed with a non-empty key; an
\* empty string is taken by the constructor as no key (line 62).
C2_NonEmptyKeyNeverAuthenticates ==
  []C2_DirectState /\ [][C2_IssuedOnlyByEmptyRead]_vars

\* C2 witness: an Instance constructed with a non-empty key has been read
\* through both accessors, one after the other, with no request on the wire.
C2_Witness ==
  /\ Direct(MainInstance)
  /\ ReadDone(MainThread)
  /\ call[MainThread] = [op |-> "default_params", inst |-> MainInstance]
  /\ ret[MainThread].kind = "params"
  /\ wire = {}

\* What a finished exchange left behind, by status (part of C3).
C3_State ==
  \A t \in Threads :
    /\ (Exchanged(t) /\ resp[t].status # HTTP_OK)
         => /\ ret[t] = RetRaise
            /\ key_[call[t].inst] = None
    /\ (Exchanged(t) /\ resp[t].status = HTTP_OK)
         => /\ ret[t].kind # "raise"
            /\ key_[call[t].inst] = resp[t].api_key

\* A failed response changes no cache; the read after a failure goes to the
\* exchange, and the exchange issues a request (part of C3).
C3_Step ==
  \A t \in Threads :
    /\ (pc[t] = "wait" /\ pc'[t] = "idle" /\ resp'[t].status # HTTP_OK)
         => key_' = key_
    /\ (Exchanged(t) /\ resp[t].status # HTTP_OK
          /\ call'[t].op \in KeyOps /\ call'[t].inst = call[t].inst
          /\ resp'[t] # resp[t])
         => pc'[t] = "send"
    /\ (pc[t] = "send" /\ pc'[t] # "send")
         => /\ nreq'[call[t].inst] = nreq[call[t].inst] + 1
            /\ pc'[t] = "wait"

\* C3: a response with a status other than 200 makes the read raise and
\* leaves the cache empty; the next read of the Instance goes to the exchange
\* again; an exchange answered with 200 stores the credential whatever
\* failures came before.
C3_FailureIsNotCached == []C3_State /\ [][C3_Step]_vars

\* C3 witness: an exchange failed, a later read issued a second request, and
\* that one was answered with 200 and cached.
C3_Witness ==
  /\ nreq[MainInstance] >= 2
  /\ nok[MainInstance] = 1
  /\ Exchanged(MainThread)
  /\ resp[MainThread].status = HTTP_OK
  /\ key_[MainInstance] = resp[MainThread].api_key

\* C4 as stated: an Instance constructed with neither a key nor both email and
\* password never issues an authentication request.
C4_NoRequestWithoutCredentials ==
  \A i \in constructed :
    (~Truthy(arg_key[i]) /\ (email[i] = None \/ password[i] = None))
      => nreq[i] = 0

\* C5: a read of default_params that returns, returns a dict with the single
\* entry key, whose value is the credential the Instance holds: the
\* constructor's key on the direct path, the cached api_key on the lazy path,
\* the api_key just received when the read itself resolved it.
C5_DefaultParams ==
  \A t \in Threads :
    (ReadDone(t) /\ call[t].op = "default_params")
      => /\ ret[t].kind \in {"params", "raise"}
         /\ ret[t].kind = "params"
              => /\ DOMAIN ret[t].params = {"key"}
                 /\ Some(ret[t].params["key"]) = key_[call[t].inst]
                 /\ Direct(call[t].inst)
                      => Some(ret[t].params["key"]) = arg_key[call[t].inst]
                 /\ Exchanged(t)
                      => Some(ret[t].params["key"]) = resp[t].api_key

\* C5 witness: a read of default_params on an empty cache resolved the
\* credential and returned it.
C5_Witness ==
  /\ Exchanged(MainThread)
  /\ call[MainThread].op = "default_params"
  /\ Lazy(call[MainThread].inst)
  /\ sent[MainThread] = 1
  /\ ret[MainThread].kind = "params"
  /\ ret[MainThread].params["key"] = "xyz"

\* The scheme word of HTTP Basic authentication, with its space.
S_Basic == <<"B", "a", "s", "i", "c", " ">>

\* C6 as stated: every authentication request is a GET to
\* <apiURL>/authenticate/baseauth with Content-Type application/json and
\* Authorization "Basic " followed by base64(email:password).
C6_BasicAuthorizationHeader ==
  \A r \in wire :
    /\ r.method = "GET"
    /\ r.url = url[r.inst] \o S_baseauth
    /\ DOMAIN r.headers = {"Authorization", "Content-Type"}
    /\ r.headers["Content-Type"] = S_json
    /\ r.headers["Authorization"]
         = S_Basic \o b64encode(FormatS(email[r.inst]) \o <<":">>
                                 \o FormatS(password[r.inst]))

\* The url the claim of C7 expects: scheme in front, /api behind.
HasScheme(u) ==
  \E k \in 2..(Len(u) - 2) : SubSeq(u, k, k + 2) = <<":", "/", "/">>
WithScheme(u) == IF HasScheme(u) THEN u ELSE S_scheme \o u
StripSlash(u) ==
  IF Len(u) > 0 /\ u[Len(u)] = "/" THEN SubSeq(u, 1, Len(u) - 1) ELSE u

\* The stored urls are the ones C7 expects.
C7_State ==
  \A i \in constructed :
    /\ base_url[i] = WithScheme(arg_url[i])
    /\ url[i] = StripSlash(WithScheme(arg_url[i])) \o <<"/">> \o S_api

\* No step changes the urls of a constructed Instance.
C7_Step ==
  \A i \in constructed : url'[i] = url[i] /\ base_url'[i] = base_url[i]

\* C7 as stated: apiURL is the constructor's url, with http:// in front when
\* it names no scheme, and /api appended to its host and path; and nothing
\* changes apiURL or base_url afterwards.
C7_ApiUrlAppendsApi == []C7_State /\ [][C7_Step]_vars

\* The process-wide settings hold the last assigned values, and reads
\* return them (part of C8).
C8_State ==
  /\ set_attempts # None => max_get_retries = set_attempts[1].val
  /\ set_delay # None => get_retry_delay = set_delay[1].val
  /\ \A t \in Threads :
       /\ (pc[t] = "idle" /\ call[t].op = "max_get_attempts")
            => ret[t] = RetInt(max_get_retries)
       /\ (pc[t] = "idle" /\ call[t].op = "get_retry_delay")
            => ret[t] = RetInt(get_retry_delay)

\* An assignment of a retry property leaves every Instance and the wire
\* alone (part of C8).
C8_Step ==
  (clientvars' # clientvars \/ \E t \in Threads :
       call'[t].op \in {"max_get_attempts=", "get_retry_delay="})
    => /\ UNCHANGED <<arg_url, arg_key, base_url, url, key_, email, password>>
       /\ UNCHANGED netvars

\* C8: a read of max_get_attempts or get_retry_delay on any Instance returns
\* the process-wide value, which is the value of the latest assignment made
\* through any Instance; an assignment stores its value as given and touches
\* no Instance.
C8_RetrySettingsAreProcessWide == []C8_State /\ [][C8_Step]_vars

\* C8 witness: the value assigned through one Instance was read back through
\* another one that was constructed after the assignment, and it is not
\* the value of the delay setting.
C8_Witness ==
  /\ set_attempts # None
  /\ set_attempts[1].via = "gi1"
  /\ "gi2" \notin set_attempts[1].known
  /\ call[MainThread] = [op |-> "max_get_attempts", inst |-> "gi2"]
  /\ ret[MainThread].num = set_attempts[1].val
  /\ ret[MainThread].num # get_retry_delay

\* C9: a key read that finds the cache empty issues exactly one GET, whether
\* the response is a 200 or not and whatever the retry settings are.
C9_SingleUnretriedGet ==
  \A t \in Threads :
    /\ sent[t] <= 1
    /\ pc[t] = "send" => sent[t] = 0
    /\ pc[t] = "wait" => sent[t] = 1
    /\ Exchanged(t) => sent[t] = 1
    /\ (ReadDone(t) /\ ~Exchanged(t)) => sent[t] = 0

\* C9 witness: with more than one GET attempt configured, a read whose
\* exchange failed ended after a single request.
C9_Witness ==
  /\ max_get_retries > 1
  /\ Exchanged(MainThread)
  /\ resp[MainThread].status # HTTP_OK
  /\ ret[MainThread] = RetRaise
  /\ sent[MainThread] = 1
  /\ nreq[MainInstance] = 1

\* C10: nothing keeps a thread out of the accessor while another thread is
\* between the test of the cache and its assignment: whenever the cache is
\* empty, an idle thread can pass the test and go on to its own request.
C10_CheckThenPopulateUnguarded ==
  \A t \in Threads :
    (/\ pc[t] = "idle"
     /\ MainInstance \in constructed
     /\ key_[MainInstance] = None
     /\ Committed + Issued < MaxRequests)
      => ENABLED (KeyCheck(t, MainInstance, "key") /\ pc'[t] = "send")

\* C10 witness: two threads read the key of one Instance at the same time and
\* both exchanges were made and answered with 200.
C10_Witness ==
  /\ nreq[MainInstance] = 2
  /\ nok[MainInstance] = 2
  /\ \A t \in Threads : Exchanged(t) /\ sent[t] = 1

=============================================================================
